---- MODULE Spec2Model ----
(***************************************************************************)
(* Ipswich Town match database: the two provider clients (rate limiting,   *)
(* retry, normalisation), the database manager's writes and the two        *)
(* scripts that store provider records.                                    *)
(*                                                                         *)
(* Python strings that the code slices or parses (dates, season labels,    *)
(* raw scores) are tuples of one-character strings; strings that are only  *)
(* compared (team names, provider ids, venues) are TLA+ strings.           *)
(***************************************************************************)
EXTENDS Integers, Sequences, FiniteSets, TLC

(***************************************************************************)
(* Python's None / SQL NULL, one per value kind (TLC compares like with    *)
(* like only).                                                             *)
(***************************************************************************)
NoneS == "<None>"
NoneT == <<"<None>">>
NoneI == -1

(***************************************************************************)
(* Decimal text.                                                           *)
(***************************************************************************)
DigitChars == <<"0", "1", "2", "3", "4", "5", "6", "7", "8", "9">>

DigitChar(d) == DigitChars[d + 1]

RECURSIVE ZeroPad(_, _)
\* n written in decimal on exactly w characters (n < 10^w), as '%04d' does.
ZeroPad(n, w) ==
    IF w = 0 THEN <<>> ELSE ZeroPad(n \div 10, w - 1) \o <<DigitChar(n % 10)>>

\* The provider's ISO date "YYYY-MM-DD" of a calendar day.
IsoDate(y, m, d) ==
    ZeroPad(y, 4) \o <<"-">> \o ZeroPad(m, 2) \o <<"-">> \o ZeroPad(d, 2)

\* Python's s[:n] and s[n:] on a string.
Prefix(s, n) == SubSeq(s, 1, IF n < Len(s) THEN n ELSE Len(s))

Suffix(s, n) == SubSeq(s, n + 1, Len(s))

\* Python truthiness of a string-or-None value.
TruthyT(s) == s # NoneT /\ s # <<>>

(***************************************************************************)
(* FootballDataClient: pure normalisation helpers.                         *)
(***************************************************************************)
CanonicalStatuses == {"scheduled", "live", "finished", "postponed", "cancelled"}

FootballDataVocabulary ==
    {"SCHEDULED", "TIMED", "IN_PLAY", "PAUSED", "FINISHED", "POSTPONED",
     "CANCELLED", "SUSPENDED", "AWARDED"}

MapStatusSuspendedUnmapped(status) ==
    CASE status = "SCHEDULED" -> "scheduled"
      [] status = "TIMED" -> "scheduled"
      [] status = "IN_PLAY" -> "live"
      [] status = "PAUSED" -> "live"
      [] status = "FINISHED" -> "finished"
      [] status = "POSTPONED" -> "postponed"
      [] status = "CANCELLED" -> "cancelled"
      [] status = "SUSPENDED" -> "suspended"
      [] status = "AWARDED" -> "finished"
      [] OTHER -> "scheduled"

\* status_map.get(status, 'scheduled')
MapStatus(status) ==
    CASE status = "SCHEDULED" -> "scheduled"
      [] status = "TIMED" -> "scheduled"
      [] status = "IN_PLAY" -> "live"
      [] status = "PAUSED" -> "live"
      [] status = "FINISHED" -> "finished"
      [] status = "POSTPONED" -> "postponed"
      [] status = "CANCELLED" -> "cancelled"
      [] status = "SUSPENDED" -> "postponed"
      [] status = "AWARDED" -> "finished"
      [] OTHER -> "scheduled"

ExtractSeasonWrongSlice(start_date, end_date) ==
    IF TruthyT(start_date) /\ TruthyT(end_date)
    THEN LET start_year == Prefix(start_date, 4)
             end_year == Prefix(end_date, 4)
         IN  IF start_year # end_year
             THEN start_year \o <<"/">> \o Prefix(end_year, 2)
             ELSE start_year
    ELSE <<>>

\* _extract_season on season_data.get('startDate', '') and
\* season_data.get('endDate', ''): a missing key reads as '', a JSON null as
\* None.
ExtractSeason(start_date, end_date) ==
    IF TruthyT(start_date) /\ TruthyT(end_date)
    THEN LET start_year == Prefix(start_date, 4)
             end_year == Prefix(end_date, 4)
         IN  IF start_year # end_year
             THEN start_year \o <<"/">> \o Suffix(end_year, 2)
             ELSE start_year
    ELSE <<>>

(***************************************************************************)
(* Text helpers of the normalisation code.                                 *)
(***************************************************************************)
IsDigits(t) ==
    /\ Len(t) > 0
    /\ \A i \in 1..Len(t) : \E d \in 1..10 : t[i] = DigitChars[d]

DigitValue(ch) == (CHOOSE d \in 1..10 : DigitChars[d] = ch) - 1

RECURSIVE IntOf(_)
\* int(t) for a string of decimal digits.
IntOf(t) ==
    IF Len(t) = 0 THEN 0
    ELSE 10 * IntOf(SubSeq(t, 1, Len(t) - 1)) + DigitValue(t[Len(t)])

RECURSIVE DecimalText(_)
\* str(n), f"{n}" for n >= 0.
DecimalText(n) ==
    IF n < 10 THEN <<DigitChar(n)>>
    ELSE DecimalText(n \div 10) \o <<DigitChar(n % 10)>>

RECURSIVE Before(_, _)
\* s.split(ch)[0]
Before(s, ch) ==
    IF Len(s) = 0 \/ Head(s) = ch THEN <<>>
    ELSE <<Head(s)>> \o Before(Tail(s), ch)

\* datetime.strptime(t, '%Y-%m-%d').date() as <<year, month, day>>; <<>>
\* stands for ValueError.  The inputs are ISO dates or no dates at all.
StrpDate(t) ==
    IF /\ Len(t) = 10
       /\ t[5] = "-" /\ t[8] = "-"
       /\ IsDigits(SubSeq(t, 1, 4))
       /\ IsDigits(SubSeq(t, 6, 7))
       /\ IsDigits(SubSeq(t, 9, 10))
       /\ IntOf(SubSeq(t, 6, 7)) \in 1..12
       /\ IntOf(SubSeq(t, 9, 10)) \in 1..31
    THEN <<IntOf(SubSeq(t, 1, 4)), IntOf(SubSeq(t, 6, 7)), IntOf(SubSeq(t, 9, 10))>>
    ELSE <<>>

\* a <= b for two dates.
DateNotAfter(a, b) ==
    \/ a[1] < b[1]
    \/ a[1] = b[1] /\ a[2] < b[2]
    \/ a[1] = b[1] /\ a[2] = b[2] /\ a[3] <= b[3]

\* a < b for two dates.
DateBefore(a, b) ==
    \/ a[1] < b[1]
    \/ a[1] = b[1] /\ a[2] < b[2]
    \/ a[1] = b[1] /\ a[2] = b[2] /\ a[3] < b[3]

(***************************************************************************)
(* TheSportsDBClient: normalisation of a raw event.                        *)
(***************************************************************************)
\* _parse_score, _parse_int: None and '' give None, so does a ValueError.
ParseScore(score) ==
    IF score = NoneT \/ score = <<>> THEN NoneI
    ELSE IF IsDigits(score) THEN IntOf(score) ELSE NoneI

ParseInt(value) == ParseScore(value)

\* _determine_status, with datetime.now().date() = today.
DetermineStatus(event, today) ==
    IF event.intHomeScore # NoneT /\ event.intAwayScore # NoneT
    THEN "finished"
    ELSE IF /\ TruthyT(event.dateEvent)
            /\ StrpDate(event.dateEvent) # <<>>
            /\ DateBefore(StrpDate(event.dateEvent), today)
         THEN "finished"
         ELSE "scheduled"

\* The keys a normalised record may lack read as None through dict.get.
NoDetails ==
    [home_shots |-> NoneI, away_shots |-> NoneI,
     home_possession |-> NoneI, away_possession |-> NoneI,
     referee |-> NoneS, attendance |-> NoneI]

\* _parse_event
ParseEvent(event, detailed, today) ==
    [api_id |-> event.idEvent,
     match_date |-> event.dateEvent,
     home_team |-> event.strHomeTeam,
     away_team |-> event.strAwayTeam,
     home_score |-> ParseScore(event.intHomeScore),
     away_score |-> ParseScore(event.intAwayScore),
     competition |-> event.strLeague,
     season |-> event.strSeason,
     venue |-> event.strVenue,
     status |-> DetermineStatus(event, today)]
    @@
    IF detailed
    THEN [home_shots |-> ParseInt(event.intHomeShots),
          away_shots |-> ParseInt(event.intAwayShots),
          home_possession |-> ParseInt(event.intHomePossession),
          away_possession |-> ParseInt(event.intAwayPossession),
          referee |-> event.strReferee,
          attendance |-> ParseInt(event.intSpectators)]
    ELSE NoDetails

(***************************************************************************)
(* FootballDataClient: normalisation of a raw match.                       *)
(***************************************************************************)
\* _parse_match.  The raw match always names its teams and its competition
\* here (a missing one is a KeyError and the match is dropped).
ParseMatch(match_data, detailed) ==
    [api_id |-> IF match_data.id = NoneI THEN "None" ELSE ToString(match_data.id),
     match_date |-> IF TruthyT(match_data.utcDate)
                    THEN Before(match_data.utcDate, "T") ELSE NoneT,
     home_team |-> match_data.homeTeam,
     away_team |-> match_data.awayTeam,
     competition |-> match_data.competition,
     season |-> ExtractSeason(match_data.seasonStart, match_data.seasonEnd),
     status |-> MapStatus(match_data.status),
     venue |-> match_data.venue,
     home_score |-> match_data.fullTimeHome,
     away_score |-> match_data.fullTimeAway]
    @@
    [NoDetails EXCEPT
        !.referee = IF detailed THEN match_data.referee ELSE NoneS,
        !.attendance = IF detailed THEN match_data.attendance ELSE NoneI]

(***************************************************************************)
(* DatabaseManager: the tables as sets of rows, one operator per           *)
(* statement.  Of a match row the model keeps the columns below; the       *)
(* kick-off time, half-time scores, round and notes are written from the   *)
(* record exactly as venue is, and never read.                             *)
(***************************************************************************)
Max(S) == CHOOSE x \in S : \A y \in S : y <= x

\* The id a serial column gives the next inserted row.
NextId(table) == IF table = {} THEN 1 ELSE Max({r.id : r \in table}) + 1

\* SELECT id FROM seasons WHERE season_name = %s  (NULL equals nothing)
GetSeasonId(seasons_, season_name) ==
    IF season_name # NoneT /\ \E r \in seasons_ : r.season_name = season_name
    THEN (CHOOSE r \in seasons_ : r.season_name = season_name).id
    ELSE NoneI

\* add_season, were its INSERT to have no ON CONFLICT clause on a table
\* without the constraint.
AddSeasonNoConflict(seasons_, season_name, start_date, end_date) ==
    seasons_ \cup {[id |-> NextId(seasons_), season_name |-> season_name,
                    start_date |-> start_date, end_date |-> end_date]}

\* INSERT INTO seasons ... ON CONFLICT (season_name) DO UPDATE SET dates
AddSeason(seasons_, season_name, start_date, end_date) ==
    IF \E r \in seasons_ : r.season_name = season_name
    THEN {IF r.season_name = season_name
          THEN [r EXCEPT !.start_date = start_date, !.end_date = end_date]
          ELSE r : r \in seasons_}
    ELSE seasons_ \cup {[id |-> NextId(seasons_), season_name |-> season_name,
                         start_date |-> start_date, end_date |-> end_date]}

\* SELECT id FROM teams WHERE team_name = %s
GetTeamId(teams_, team_name) ==
    IF team_name # NoneS /\ \E r \in teams_ : r.team_name = team_name
    THEN (CHOOSE r \in teams_ : r.team_name = team_name).id
    ELSE NoneI

\* _store_match, were it not to create a team it does not find.
AddTeamNotCreated(teams_, team_name) == teams_

\* add_team(team_name) without keyword arguments: the only optional field
\* that is not None is country, 'England' by default, so the statement is
\* INSERT ... ON CONFLICT (team_name) DO UPDATE SET country = EXCLUDED.country
AddTeam(teams_, team_name) ==
    IF \E r \in teams_ : r.team_name = team_name
    THEN {IF r.team_name = team_name THEN [r EXCEPT !.country = "England"] ELSE r
          : r \in teams_}
    ELSE teams_ \cup {[id |-> NextId(teams_), team_name |-> team_name,
                       country |-> "England"]}

\* SELECT id FROM competitions WHERE name = %s
GetCompetitionId(competitions_, competition_name) ==
    IF competition_name # NoneS /\ \E r \in competitions_ : r.name = competition_name
    THEN (CHOOSE r \in competitions_ : r.name = competition_name).id
    ELSE NoneI

\* The natural-key uniqueness of the matches table: a provider identifier
\* names one row; rows that carry neither identifier are one per (season,
\* competition, date, home, away).  NULL equals nothing.
MatchUniqueViolation(matches_, row) ==
    \E m \in matches_ :
        \/ row.api_id_thesportsdb # NoneS
              /\ m.api_id_thesportsdb = row.api_id_thesportsdb
        \/ row.api_id_football_data # NoneS
              /\ m.api_id_football_data = row.api_id_football_data
        \/ /\ row.api_id_thesportsdb = NoneS /\ row.api_id_football_data = NoneS
           /\ m.api_id_thesportsdb = NoneS /\ m.api_id_football_data = NoneS
           /\ row.match_date # NoneT
           /\ m.season_id = row.season_id
           /\ m.competition_id = row.competition_id
           /\ m.match_date = row.match_date
           /\ m.home_team_id = row.home_team_id
           /\ m.away_team_id = row.away_team_id

\* The row add_match's VALUES list describes.
MatchRow(id, match_data) ==
    [id |-> id,
     season_id |-> match_data.season_id,
     competition_id |-> match_data.competition_id,
     match_date |-> match_data.match_date,
     home_team_id |-> match_data.home_team_id,
     away_team_id |-> match_data.away_team_id,
     home_score |-> match_data.home_score,
     away_score |-> match_data.away_score,
     venue |-> match_data.venue,
     attendance |-> match_data.attendance,
     referee |-> match_data.referee,
     match_status |-> match_data.match_status,
     api_id_thesportsdb |-> match_data.api_id_thesportsdb,
     api_id_football_data |-> match_data.api_id_football_data]

\* add_match: INSERT ... ON CONFLICT (id) DO UPDATE SET home_score,
\* away_score, match_status, attendance ... RETURNING id.  The id comes from
\* the table's sequence; a value burnt by a rejected insert only leaves a
\* gap and is not counted.  raised: the statement failed and nothing of it
\* is committed.
AddMatch(matches_, match_id_seq_, match_data) ==
    LET id == match_id_seq_ + 1
        row == MatchRow(id, match_data)
    IN  IF \E m \in matches_ : m.id = id
        THEN [raised |-> FALSE, id |-> id, match_id_seq |-> id,
              matches |-> {IF m.id = id
                           THEN [m EXCEPT !.home_score = row.home_score,
                                          !.away_score = row.away_score,
                                          !.match_status = row.match_status,
                                          !.attendance = row.attendance]
                           ELSE m : m \in matches_}]
        ELSE IF MatchUniqueViolation(matches_, row)
             THEN [raised |-> TRUE, id |-> NoneI, match_id_seq |-> match_id_seq_,
                   matches |-> matches_]
             ELSE [raised |-> FALSE, id |-> id, match_id_seq |-> id,
                   matches |-> matches_ \cup {row}]

\* update_match_score: UPDATE matches SET home_score, away_score,
\* match_status WHERE id = %s
UpdateMatchScore(matches_, match_id, home_score, away_score, status) ==
    {IF m.id = match_id
     THEN [m EXCEPT !.home_score = home_score, !.away_score = away_score,
                    !.match_status = status]
     ELSE m : m \in matches_}

\* d.get(key, default)
KwGet(d, key, default) == IF key \in DOMAIN d THEN d[key] ELSE default

\* The statistic columns of match_statistics, in the order of the INSERT.
StatColumns ==
    {"ipswich_possession", "opposition_possession",
     "ipswich_shots", "opposition_shots",
     "ipswich_shots_on_target", "opposition_shots_on_target",
     "ipswich_corners", "opposition_corners",
     "ipswich_fouls", "opposition_fouls",
     "ipswich_offsides", "opposition_offsides",
     "ipswich_passes", "opposition_passes",
     "ipswich_pass_accuracy", "opposition_pass_accuracy"}

\* The columns ON CONFLICT (match_id) DO UPDATE SET assigns.
UpdatedStatColumns ==
    {"ipswich_possession", "opposition_possession",
     "ipswich_shots", "opposition_shots"}

\* add_match_statistics, were its ON CONFLICT to add the new counts to the
\* stored ones.
AddMatchStatisticsAccumulating(match_statistics_, match_id, stats) ==
    IF \E r \in match_statistics_ : r.match_id = match_id
    THEN {IF r.match_id = match_id
          THEN [c \in DOMAIN r |->
                   IF c \in UpdatedStatColumns /\ r[c] # NoneI
                   THEN r[c] + KwGet(stats, c, 0)
                   ELSE r[c]]
          ELSE r : r \in match_statistics_}
    ELSE match_statistics_ \cup
         {[c \in StatColumns \cup {"match_id"} |->
              IF c = "match_id" THEN match_id ELSE KwGet(stats, c, NoneI)]}

\* add_match_statistics: INSERT INTO match_statistics (match_id, the sixteen
\* statistics, each stats.get(column)) ... ON CONFLICT (match_id) DO UPDATE
\* SET the two possessions and the two shot counts.
AddMatchStatistics(match_statistics_, match_id, stats) ==
    IF \E r \in match_statistics_ : r.match_id = match_id
    THEN {IF r.match_id = match_id
          THEN [c \in DOMAIN r |->
                   IF c \in UpdatedStatColumns THEN KwGet(stats, c, NoneI)
                   ELSE r[c]]
          ELSE r : r \in match_statistics_}
    ELSE match_statistics_ \cup
         {[c \in StatColumns \cup {"match_id"} |->
              IF c = "match_id" THEN match_id ELSE KwGet(stats, c, NoneI)]}

\* Python truthiness of an int-or-None value.
TruthyI(n) == n # NoneI /\ n # 0

\* _extract_statistics, and the same mapping inlined in _store_match.
ExtractStatistics(match_data) ==
    LET is_home == match_data.home_team = "Ipswich Town"
    IN  [ipswich_possession |-> IF is_home THEN match_data.home_possession
                                ELSE match_data.away_possession,
         opposition_possession |-> IF is_home THEN match_data.away_possession
                                   ELSE match_data.home_possession,
         ipswich_shots |-> IF is_home THEN match_data.home_shots
                           ELSE match_data.away_shots,
         opposition_shots |-> IF is_home THEN match_data.away_shots
                              ELSE match_data.home_shots]

(***************************************************************************)
(* CurrentSeasonFetcher._store_match on the database db (a record of the   *)
(* tables): the database it leaves and the line it logs.  An exception     *)
(* anywhere is caught at the end and what was written before it stays.     *)
(***************************************************************************)
StoreMatchFromCompetition(db, match_data, source, season_id, seasons_) ==
    LET competition_id == GetCompetitionId(db.competitions, match_data.competition)
        home_team == match_data.home_team
        away_team == match_data.away_team
        db1 == [db EXCEPT !.seasons = seasons_]
    IN  IF competition_id = NoneI
        THEN [db |-> db1, log |-> "Competition not found"]
        ELSE IF home_team \in {NoneS, ""} \/ away_team \in {NoneS, ""}
        THEN [db |-> db1, log |-> "Missing team information"]
        ELSE
        LET teams1 == IF GetTeamId(db.teams, home_team) = NoneI
                      THEN AddTeam(db.teams, home_team) ELSE db.teams
            home_team_id == GetTeamId(teams1, home_team)
            teams2 == IF GetTeamId(teams1, away_team) = NoneI
                      THEN AddTeam(teams1, away_team) ELSE teams1
            away_team_id == GetTeamId(teams2, away_team)
            db_match_data ==
                [season_id |-> season_id,
                 competition_id |-> competition_id,
                 match_date |-> match_data.match_date,
                 home_team_id |-> home_team_id,
                 away_team_id |-> away_team_id,
                 home_score |-> match_data.home_score,
                 away_score |-> match_data.away_score,
                 venue |-> match_data.venue,
                 attendance |-> match_data.attendance,
                 referee |-> match_data.referee,
                 match_status |-> match_data.status,
                 api_id_thesportsdb |->
                     IF source = "thesportsdb" THEN match_data.api_id ELSE NoneS,
                 api_id_football_data |->
                     IF source = "football_data" THEN match_data.api_id ELSE NoneS]
            added == AddMatch(db.matches, db.match_id_seq, db_match_data)
            db2 == [db1 EXCEPT !.teams = teams2]
        IN  IF added.raised
            THEN [db |-> db2, log |-> "Error storing match"]
            ELSE [db |-> [db2 EXCEPT
                            !.matches = added.matches,
                            !.match_id_seq = added.match_id_seq,
                            !.match_statistics =
                                IF TruthyI(match_data.home_possession)
                                THEN AddMatchStatistics(db.match_statistics, added.id,
                                                        ExtractStatistics(match_data))
                                ELSE db.match_statistics],
                  log |-> "Added match"]

\* _store_match, were it to enter a competition it does not find rather
\* than skip the match.
StoreMatchCreatingCompetition(db, match_data, source) ==
    LET known == GetCompetitionId(db.competitions, match_data.competition) # NoneI
        dbc == IF known \/ match_data.competition = NoneS THEN db
               ELSE [db EXCEPT !.competitions =
                        @ \cup {[id |-> NextId(@), name |-> match_data.competition]}]
        season_name == match_data.season
        season_id == GetSeasonId(dbc.seasons, season_name)
    IN  IF season_id # NoneI
        THEN StoreMatchFromCompetition(dbc, match_data, source, season_id, dbc.seasons)
        ELSE [db |-> dbc, log |-> "Error storing match"]

\* match_data.get('season', self.current_season): both clients set the key
\* (to None or '' when they have no season), so the default is never read.
StoreMatchOn(db, match_data, source) ==
    LET season_name == match_data.season
        season_id == GetSeasonId(db.seasons, season_name)
    IN  IF season_id # NoneI
        THEN StoreMatchFromCompetition(db, match_data, source, season_id, db.seasons)
        ELSE IF season_name = NoneT \/ ~IsDigits(Before(season_name, "/"))
        THEN \* None.split: AttributeError; int('...'): ValueError
             [db |-> db, log |-> "Error storing match"]
        ELSE LET year == IntOf(Before(season_name, "/"))
                 seasons1 == AddSeason(db.seasons, season_name,
                                 DecimalText(year) \o <<"-", "0", "8", "-", "0", "1">>,
                                 DecimalText(year + 1) \o <<"-", "0", "5", "-", "3", "1">>)
             IN  StoreMatchFromCompetition(db, match_data, source,
                                GetSeasonId(seasons1, season_name), seasons1)

(***************************************************************************)
(* DailyUpdater._update_match_from_api.  found is the row the SELECT by    *)
(* provider identifier returned first (NoneI: no row); the order of the    *)
(* rows of a SELECT without ORDER BY is the database's.                    *)
(***************************************************************************)
RowsByApiId(matches_, source, api_id) ==
    {m \in matches_ :
        IF source = "thesportsdb" THEN m.api_id_thesportsdb = api_id
        ELSE m.api_id_football_data = api_id}

UpdateMatchFromApiOn(db, match_data, source, found) ==
    IF match_data.api_id \in {NoneS, ""}
    THEN [db |-> db, log |-> "none"]
    ELSE IF found = NoneI
    THEN [db |-> db, log |-> "none"]
    ELSE
    LET scored == match_data.home_score # NoneI /\ match_data.away_score # NoneI
        matches1 == IF scored
                    THEN UpdateMatchScore(db.matches, found, match_data.home_score,
                                          match_data.away_score, match_data.status)
                    ELSE db.matches
        stats1 == IF TruthyI(match_data.home_possession)
                  THEN AddMatchStatistics(db.match_statistics, found,
                                          ExtractStatistics(match_data))
                  ELSE db.match_statistics
    IN  [db |-> [db EXCEPT !.matches = matches1, !.match_statistics = stats1],
         log |-> IF scored THEN "Updated match" ELSE "none"]

(***************************************************************************)
(* Bounds of the pure-function inputs.                                     *)
(***************************************************************************)
StatusInputs ==
    FootballDataVocabulary \cup
    {"LIVE", "EXTRA_TIME", "finished", "Scheduled", "", "None", NoneS}

SeasonYears == {1999, 2000, 2023, 2024}

SeasonMonths == {1, 5, 8, 12}

SeasonDays == {1, 31}

SeasonDates == [y : SeasonYears, m : SeasonMonths, d : SeasonDays]

\* A season date field as the provider sends it: a day's ISO text, an empty
\* string (also what a missing key reads as) or null.
SeasonDateInputs ==
    {IsoDate(x.y, x.m, x.d) : x \in SeasonDates} \cup {<<>>, NoneT}

VARIABLES
    pfun,   \* the pure function under evaluation
    pin,    \* its input
    pout,   \* its result
    ppc     \* "in": not yet applied, "out": applied; of a DatabaseManager
            \* call: how its statement ended

pvars == <<pfun, pin, pout, ppc>>

VARIABLES
    now,                \* time.time(), in seconds
    api_key,            \* FootballDataClient.api_key is configured
    last_request_time,  \* FootballDataClient.last_request_time
    fpc,                \* position of the running _make_request, or "idle"
    client,             \* the client object this run exercises
    calls,              \* fetch calls started so far
    reqs,               \* outbound HTTP requests of the running (or last) call
    outcome,            \* how the last outbound request of the call ended
    result,             \* what the last finished call returned
    lastStart,          \* when the client's latest outbound request began
    prevStart           \* when the one before that began

fvars == <<now, api_key, last_request_time, fpc, client, calls, reqs, outcome,
           result, lastStart, prevStart>>

VARIABLES
    seasons,            \* rows of table seasons
    teams,              \* rows of table teams
    competitions,       \* rows of table competitions
    matches,            \* rows of table matches
    match_statistics,   \* rows of table match_statistics
    match_id_seq,       \* last value of the sequence behind matches.id
    log                 \* what the last handler logged

svars == <<seasons, teams, competitions, matches, match_statistics, match_id_seq,
           log>>

VARIABLES
    players,            \* rows of table players
    conn,               \* the connection of the running DatabaseManager call
    txn,                \* the tables as the call's open transaction sees them
    mpc,                \* position of the running DatabaseManager call
    raised              \* the last DatabaseManager call raised

mvars == <<players, conn, txn, mpc, raised>>

VARIABLES
    rpc,                \* position of run_daily_update
    phase,              \* phase of the run
    entered,            \* the phases the run has entered, in order
    queried,            \* <<phase, provider>> of the fetches the run made
    failed,             \* <<phase, provider>> of those that failed
    fetched,            \* records fetched and not yet processed
    ret                 \* what the run returned

VARIABLES
    responses,          \* what the providers answered to the fetches, by block
    run,                \* 1: first run, 2: the run made again
    start               \* the database before the first run

hvars == <<responses, run, start>>

rvars == <<rpc, phase, entered, queried, failed, fetched, ret, hvars>>

vars == <<pvars, fvars, svars, mvars, rvars>>

(***************************************************************************)
(* Pure functions, applied to inputs drawn in the initial state.           *)
(***************************************************************************)
PureIdle ==
    /\ ppc = "off" /\ pfun = "none" /\ pin = "none" /\ pout = "none"

StoreIdle ==
    /\ seasons = {} /\ teams = {} /\ competitions = {} /\ matches = {}
    /\ match_statistics = {} /\ match_id_seq = 0 /\ log = "off"

ManagerIdle ==
    /\ players = {} /\ conn = "none" /\ txn = "none" /\ mpc = "off"
    /\ raised = FALSE

HistoryIdle ==
    /\ responses = <<>> /\ run = 0 /\ start = "none"

RunIdle ==
    /\ rpc = "off" /\ phase = "none" /\ entered = <<>> /\ queried = {}
    /\ failed = {} /\ fetched = <<>> /\ ret = "none"
    /\ HistoryIdle

FetchIdle ==
    /\ now = 0 /\ api_key = FALSE /\ last_request_time = 0 /\ fpc = "off"
    /\ client = "none" /\ calls = 0 /\ reqs = 0 /\ outcome = "none"
    /\ result = "none"
    /\ lastStart = NoneI /\ prevStart = NoneI

PureInit ==
    /\ ppc = "in"
    /\ pout = "pending"
    /\ \/ pfun = "map_status" /\ pin \in StatusInputs
       \/ pfun = "extract_season" /\ pin \in SeasonDateInputs \X SeasonDateInputs
    /\ FetchIdle
    /\ StoreIdle
    /\ ManagerIdle
    /\ RunIdle

ApplyMapStatus ==
    /\ ppc = "in" /\ pfun = "map_status"
    /\ pout' = MapStatus(pin)
    /\ ppc' = "out"
    /\ UNCHANGED <<pfun, pin, fvars, svars, mvars, rvars>>

ApplyExtractSeason ==
    /\ ppc = "in" /\ pfun = "extract_season"
    /\ pout' = ExtractSeason(pin[1], pin[2])
    /\ ppc' = "out"
    /\ UNCHANGED <<pfun, pin, fvars, svars, mvars, rvars>>

PureNext == ApplyMapStatus \/ ApplyExtractSeason

SpecPure == PureInit /\ [][PureNext]_vars

(***************************************************************************)
(* The two clients' _make_request: rate limiting, the request, its retry.  *)
(* Time passes in sleeps, while a request is in flight and between calls;  *)
(* the statements in between take no time.                                 *)
(***************************************************************************)
FdRateLimitDelay == 6

TsRateLimitDelay == 2

Cooldown == 60

\* time.time() when the clients are constructed (last_request_time = 0 lies
\* further back than any delay).
StartTime == 10

MaxTime == 150

MaxCalls == 3

\* A request is in flight for 0..MaxLatency seconds.
MaxLatency == 1

\* time.sleep(d) returns after d..d+MaxOversleep seconds.
MaxOversleep == 1

\* The caller works for 0..MaxIdle seconds between two fetch calls.
MaxIdle == 7

Clients == {"football_data", "thesportsdb"}

RateLimitDelay(c) ==
    IF c = "football_data" THEN FdRateLimitDelay ELSE TsRateLimitDelay

\* Failures of an outbound call other than throttling: raise_for_status on a
\* 4xx/5xx other than 429, a timeout, a refused connection.
TransportFailures == {"http_error", "timeout", "connection_error"}

FetchInit ==
    /\ now = StartTime
    /\ api_key \in BOOLEAN
    /\ last_request_time = 0
    /\ fpc = "idle"
    /\ client \in Clients
    /\ calls = 0
    /\ reqs = 0
    /\ outcome = "none"
    /\ result = "none"
    /\ lastStart = NoneI
    /\ prevStart = NoneI
    /\ PureIdle
    /\ StoreIdle
    /\ ManagerIdle
    /\ RunIdle

\* The caller between two fetch calls on this client.
CallerWorks ==
    /\ fpc = "idle"
    /\ \E d \in 1..MaxIdle :
          /\ now + d <= MaxTime
          /\ now' = now + d
    /\ fpc' = "ready"
    /\ UNCHANGED <<api_key, last_request_time, client, calls, reqs,
                   outcome, result, lastStart, prevStart, pvars, svars, mvars, rvars>>

\* FootballDataClient._make_request, entry: without an API key it returns
\* None and sends nothing.
FdMakeRequest ==
    /\ client = "football_data"
    /\ fpc \in {"idle", "ready"} /\ calls < MaxCalls
    /\ calls' = calls + 1
    /\ reqs' = 0
    /\ outcome' = "none"
    /\ IF api_key
       THEN fpc' = "fd_rate_limit" /\ result' = "none"
       ELSE fpc' = "idle" /\ result' = "None"
    /\ UNCHANGED <<now, api_key, last_request_time, client, lastStart,
                   prevStart, pvars, svars, mvars, rvars>>

FdRateLimitNoSleep ==
    /\ fpc = "fd_rate_limit"
    /\ last_request_time' = now
    /\ fpc' = "fd_get"
    /\ UNCHANGED <<now, api_key, client, calls, reqs, outcome, result,
                   lastStart, prevStart, pvars, svars, mvars, rvars>>

\* FootballDataClient._rate_limit
FdRateLimit ==
    /\ fpc = "fd_rate_limit"
    /\ LET elapsed == now - last_request_time
       IN  IF elapsed < FdRateLimitDelay
           THEN \E o \in 0..MaxOversleep :
                    /\ now + (FdRateLimitDelay - elapsed) + o <= MaxTime
                    /\ now' = now + (FdRateLimitDelay - elapsed) + o
           ELSE now' = now
    /\ last_request_time' = now'
    /\ fpc' = "fd_get"
    /\ UNCHANGED <<api_key, client, calls, reqs, outcome, result, lastStart,
                   prevStart, pvars, svars, mvars, rvars>>

\* One outbound session.get, begun now and answered after l seconds.
Send(l) ==
    /\ now + l <= MaxTime
    /\ now' = now + l
    /\ reqs' = reqs + 1
    /\ prevStart' = lastStart
    /\ lastStart' = now

\* session.get answers 2xx: the parsed body is returned.
FdGetOk ==
    /\ fpc = "fd_get"
    /\ \E l \in 0..MaxLatency : Send(l)
    /\ outcome' = "ok"
    /\ result' = "data"
    /\ fpc' = "idle"
    /\ UNCHANGED <<api_key, last_request_time, client, calls, pvars, svars, mvars, rvars>>

\* HTTPError with status 429: the cooldown sleep comes next.
FdGet429 ==
    /\ fpc = "fd_get"
    /\ \E l \in 0..MaxLatency : Send(l)
    /\ outcome' = "429"
    /\ fpc' = "fd_cooldown"
    /\ UNCHANGED <<api_key, last_request_time, client, calls, result, pvars, svars, mvars, rvars>>

FdGetFailedRetries ==
    /\ fpc = "fd_get"
    /\ \E l \in 0..MaxLatency : Send(l)
    /\ outcome' \in TransportFailures
    /\ fpc' = "fd_cooldown"
    /\ UNCHANGED <<api_key, last_request_time, client, calls, result, pvars, svars, mvars, rvars>>

\* Any other HTTPError, or another RequestException: None is returned.
FdGetFailed ==
    /\ fpc = "fd_get"
    /\ \E l \in 0..MaxLatency : Send(l)
    /\ outcome' \in TransportFailures
    /\ result' = "None"
    /\ fpc' = "idle"
    /\ UNCHANGED <<api_key, last_request_time, client, calls, pvars, svars, mvars, rvars>>

\* time.sleep(60), then return self._make_request(endpoint, params): the API
\* key is set, so the nested call goes on to _rate_limit.
FdCooldownRetry ==
    /\ fpc = "fd_cooldown"
    /\ \E o \in 0..MaxOversleep :
          /\ now + Cooldown + o <= MaxTime
          /\ now' = now + Cooldown + o
    /\ fpc' = "fd_rate_limit"
    /\ UNCHANGED <<api_key, last_request_time, client, calls, reqs, outcome,
                   result, lastStart, prevStart, pvars, svars, mvars, rvars>>

\* TheSportsDBClient._make_request, entry.
TsMakeRequest ==
    /\ client = "thesportsdb"
    /\ fpc \in {"idle", "ready"} /\ calls < MaxCalls
    /\ calls' = calls + 1
    /\ reqs' = 0
    /\ outcome' = "none"
    /\ result' = "none"
    /\ fpc' = "ts_sleep"
    /\ UNCHANGED <<now, api_key, last_request_time, client, lastStart,
                   prevStart, pvars, svars, mvars, rvars>>

\* time.sleep(self.rate_limit_delay)
TsSleep ==
    /\ fpc = "ts_sleep"
    /\ \E o \in 0..MaxOversleep :
          /\ now + TsRateLimitDelay + o <= MaxTime
          /\ now' = now + TsRateLimitDelay + o
    /\ fpc' = "ts_get"
    /\ UNCHANGED <<api_key, last_request_time, client, calls, reqs, outcome,
                   result, lastStart, prevStart, pvars, svars, mvars, rvars>>

TsGetOk ==
    /\ fpc = "ts_get"
    /\ \E l \in 0..MaxLatency : Send(l)
    /\ outcome' = "ok"
    /\ result' = "data"
    /\ fpc' = "idle"
    /\ UNCHANGED <<api_key, last_request_time, client, calls, pvars, svars, mvars, rvars>>

\* Any RequestException, a 429 included: None is returned.
TsGetFailed ==
    /\ fpc = "ts_get"
    /\ \E l \in 0..MaxLatency : Send(l)
    /\ outcome' \in TransportFailures \cup {"429"}
    /\ result' = "None"
    /\ fpc' = "idle"
    /\ UNCHANGED <<api_key, last_request_time, client, calls, pvars, svars, mvars, rvars>>

FetchNext ==
    \/ CallerWorks
    \/ FdMakeRequest
    \/ FdRateLimit
    \/ FdGetOk
    \/ FdGet429
    \/ FdGetFailed
    \/ FdCooldownRetry
    \/ TsMakeRequest
    \/ TsSleep
    \/ TsGetOk
    \/ TsGetFailed

SpecFetch == FetchInit /\ [][FetchNext]_vars

(***************************************************************************)
(* FootballDataClient._make_request without the clock: every sleep ends    *)
(* and every request is answered, and what is left is the control flow.    *)
(* The call after a 429 is a nested call, one frame deeper each time; the  *)
(* interpreter raises RecursionError when the frames run out.              *)
(***************************************************************************)
\* Nested calls of _make_request the interpreter's recursion limit allows
\* (sys.getrecursionlimit(), 1000 unless set, less the frames in use).
RecursionLimit == 6

ThrottledInit ==
    /\ now = StartTime
    /\ api_key \in BOOLEAN
    /\ last_request_time = 0
    /\ fpc = "idle"
    /\ client = "football_data"
    /\ calls = 0
    /\ reqs = 0
    /\ outcome = "none"
    /\ result = "none"
    /\ lastStart = NoneI
    /\ prevStart = NoneI
    /\ PureIdle
    /\ StoreIdle
    /\ ManagerIdle
    /\ RunIdle

ThrottledFrame ==
    UNCHANGED <<now, api_key, last_request_time, client, lastStart, prevStart,
                pvars, svars, mvars, rvars>>

\* _make_request is called; _rate_limit sleeps and returns.
ThrottledMakeRequest ==
    /\ fpc = "idle" /\ calls < MaxCalls
    /\ calls' = calls + 1
    /\ reqs' = 0
    /\ outcome' = "none"
    /\ IF api_key
       THEN fpc' = "fd_get" /\ result' = "none"
       ELSE fpc' = "idle" /\ result' = "None"
    /\ ThrottledFrame

\* session.get is answered: 2xx, 429, or another failure.
ThrottledGet ==
    /\ fpc = "fd_get"
    /\ reqs' = reqs + 1
    /\ \E o \in {"ok", "429"} \cup TransportFailures :
          /\ outcome' = o
          /\ fpc' = IF o = "429" THEN "fd_cooldown" ELSE "idle"
          /\ result' = IF o = "ok" THEN "data"
                       ELSE IF o = "429" THEN result ELSE "None"
    /\ UNCHANGED calls
    /\ ThrottledFrame

\* time.sleep(60); return self._make_request(endpoint, params)
ThrottledRetry ==
    /\ fpc = "fd_cooldown" /\ reqs < RecursionLimit
    /\ fpc' = "fd_get"
    /\ UNCHANGED <<calls, reqs, outcome, result>>
    /\ ThrottledFrame

\* The nested call has no frame left: RecursionError leaves every frame of
\* _make_request, none of whose except clauses names it.
ThrottledRecursionError ==
    /\ fpc = "fd_cooldown" /\ reqs >= RecursionLimit
    /\ fpc' = "idle"
    /\ result' = "RecursionError"
    /\ UNCHANGED <<calls, reqs, outcome>>
    /\ ThrottledFrame

ThrottledNext ==
    \/ ThrottledMakeRequest
    \/ ThrottledGet
    \/ ThrottledRetry
    \/ ThrottledRecursionError

\* A call that has begun goes on: requests are answered and sleeps end.
SpecThrottled ==
    /\ ThrottledInit
    /\ [][ThrottledNext]_vars
    /\ WF_vars(ThrottledGet)
    /\ WF_vars(ThrottledRetry)
    /\ WF_vars(ThrottledRecursionError)

(***************************************************************************)
(* The scripts' handlers on the database.  The records they are given are  *)
(* the normalisations of the raw items below.                              *)
(***************************************************************************)
MaxMatches == 2

MatchDay == IsoDate(2024, 3, 2)

\* datetime.now().date() during the run.
Today == <<2024, 3, 10>>

Season2324 == <<"2", "0", "2", "3", "/", "2", "4">>

RawEvents ==
    [idEvent : {NoneS, "e1"},
     dateEvent : {NoneT, MatchDay},
     strHomeTeam : {"Ipswich Town"},
     strAwayTeam : {"Norwich City"},
     intHomeScore : {NoneT, <<"2">>},
     intAwayScore : {NoneT, <<"1">>},
     strLeague : {"Championship", "FA Cup"},
     strSeason : {Season2324},
     strVenue : {"Portman Road"},
     intHomeShots : {<<"9">>},
     intAwayShots : {<<"4">>},
     intHomePossession : {<<"5", "5">>},
     intAwayPossession : {<<"4", "5">>},
     strReferee : {"A Referee"},
     intSpectators : {<<"2", "9", "0", "0", "0">>}]

\* A played league match with an id and a date.
FullEvent(e) ==
    /\ e.idEvent # NoneS /\ e.dateEvent # NoneT
    /\ e.intHomeScore # NoneT /\ e.intAwayScore # NoneT
    /\ e.strLeague = "Championship"

RawMatches ==
    [id : {1},
     utcDate : {MatchDay \o <<"T", "1", "5", ":", "0", "0", ":", "0", "0", "Z">>},
     homeTeam : {"Ipswich Town"},
     awayTeam : {"Norwich City"},
     competition : {"Championship"},
     seasonStart : {IsoDate(2023, 8, 1)},
     seasonEnd : {IsoDate(2024, 5, 31)},
     status : {"FINISHED", "TIMED"},
     venue : {"Portman Road"},
     fullTimeHome : {NoneI, 2},
     fullTimeAway : {NoneI, 1},
     referee : {"A Referee"},
     attendance : {29000}]

\* What the clients hand to the scripts: get_event_details (detailed) is
\* asked for events that have an id.
EventRecords ==
    {ParseEvent(e, d, Today) : e \in RawEvents, d \in BOOLEAN} \ 
    {ParseEvent(e, TRUE, Today) : e \in {x \in RawEvents : ~FullEvent(x)}}

MatchRecords == {ParseMatch(m, d) : m \in RawMatches, d \in BOOLEAN}

Records(source) == IF source = "thesportsdb" THEN EventRecords ELSE MatchRecords

Database ==
    [seasons |-> seasons, teams |-> teams, competitions |-> competitions,
     matches |-> matches, match_statistics |-> match_statistics,
     match_id_seq |-> match_id_seq]

\* The handler left the database r.db and logged r.log.
Leaves(r) ==
    /\ r.db.match_id_seq <= MaxMatches
    /\ seasons' = r.db.seasons
    /\ teams' = r.db.teams
    /\ competitions' = r.db.competitions
    /\ matches' = r.db.matches
    /\ match_statistics' = r.db.match_statistics
    /\ match_id_seq' = r.db.match_id_seq
    /\ log' = r.log

\* A database as create_database leaves it, with the competitions entered
\* by hand.
StoreInit ==
    /\ seasons = {}
    /\ teams = {}
    /\ competitions = {[id |-> 1, name |-> "Championship"]}
    /\ matches = {}
    /\ match_statistics = {}
    /\ match_id_seq = 0
    /\ log = "none"
    /\ PureIdle
    /\ FetchIdle
    /\ ManagerIdle
    /\ RunIdle

\* CurrentSeasonFetcher._store_match(match_data, source)
StoreMatch ==
    /\ log # "off"
    /\ \E source \in Clients : \E match_data \in Records(source) :
          Leaves(StoreMatchOn(Database, match_data, source))
    /\ UNCHANGED <<pvars, fvars, mvars, rvars>>

\* DailyUpdater._update_match_from_api(match_data, source)
UpdateMatchFromApi ==
    /\ log # "off"
    /\ \E source \in Clients : \E match_data \in Records(source) :
          LET rows == RowsByApiId(matches, source, match_data.api_id)
          IN  \E found \in {m.id : m \in rows} \cup
                           (IF rows = {} THEN {NoneI} ELSE {}) :
                 Leaves(UpdateMatchFromApiOn(Database, match_data, source, found))
    /\ UNCHANGED <<pvars, fvars, mvars, rvars>>

Next == StoreMatch \/ UpdateMatchFromApi

Spec == StoreInit /\ [][Next]_vars

(***************************************************************************)
(* The same handlers on a database whose matches were loaded with their    *)
(* ids (a restored dump) while the sequence behind matches.id was left at  *)
(* its start: the only databases in which add_match's INSERT meets an      *)
(* existing id and takes its ON CONFLICT (id) branch.                      *)
(***************************************************************************)
RestoredMatch ==
    [id |-> 1, season_id |-> 1, competition_id |-> 1, match_date |-> MatchDay,
     home_team_id |-> 1, away_team_id |-> 2, home_score |-> 2, away_score |-> 1,
     venue |-> "Portman Road", attendance |-> 29000, referee |-> "A Referee",
     match_status |-> "finished", api_id_thesportsdb |-> "e1",
     api_id_football_data |-> NoneS]

RestoredInit ==
    /\ seasons = {[id |-> 1, season_name |-> Season2324,
                   start_date |-> IsoDate(2023, 8, 1),
                   end_date |-> IsoDate(2024, 5, 31)]}
    /\ teams = {[id |-> 1, team_name |-> "Ipswich Town", country |-> "England"],
                [id |-> 2, team_name |-> "Norwich City", country |-> "England"]}
    /\ competitions = {[id |-> 1, name |-> "Championship"]}
    /\ matches = {RestoredMatch}
    /\ match_statistics = {}
    /\ match_id_seq = 0
    /\ log = "none"
    /\ PureIdle
    /\ FetchIdle
    /\ ManagerIdle
    /\ RunIdle

SpecRestored == RestoredInit /\ [][Next]_vars

(***************************************************************************)
(* The adapters' list methods and the normalisation they apply to each     *)
(* raw item of a provider's answer.                                        *)
(***************************************************************************)
\* A raw item that is JSON null instead of an object.
JsonNull == [json |-> "null"]

IsObject(item) == "json" \notin DOMAIN item

\* The dictionary without one of its keys.
Without(d, key) == [k \in DOMAIN d \ {key} |-> d[k]]

\* _parse_event returns None: event.get raises AttributeError on an item
\* that is no dictionary, and `except Exception` catches it.
ParseEventRaises(event) == ~IsObject(event)

\* _parse_match returns None: a KeyError on match_data['homeTeam'],
\* ['awayTeam'] or ['competition'], an IndexError on utcDate.split('T')[1],
\* an AttributeError on an item that is no dictionary, all caught.
ParseMatchRaises(match_data) ==
    \/ ~IsObject(match_data)
    \/ "homeTeam" \notin DOMAIN match_data
    \/ "awayTeam" \notin DOMAIN match_data
    \/ "competition" \notin DOMAIN match_data
    \/ /\ TruthyT(match_data.utcDate)
       /\ Before(match_data.utcDate, "T") = match_data.utcDate

RECURSIVE ParseEventsUntilFailure(_, _)
\* The loop, were a failing item to end it.
ParseEventsUntilFailure(events, today) ==
    IF Len(events) = 0 \/ ParseEventRaises(Head(events)) THEN <<>>
    ELSE <<ParseEvent(Head(events), FALSE, today)>>
             \o ParseEventsUntilFailure(Tail(events), today)

RECURSIVE ParseEvents(_, _)
\* for event in ...: match = self._parse_event(event); if match: append
ParseEvents(events, today) ==
    IF Len(events) = 0 THEN <<>>
    ELSE IF ParseEventRaises(Head(events))
         THEN ParseEvents(Tail(events), today)
         ELSE <<ParseEvent(Head(events), FALSE, today)>>
                  \o ParseEvents(Tail(events), today)

RECURSIVE ParseMatches(_)
\* for match_data in data['matches']: match = self._parse_match(match_data);
\* if match: append
ParseMatches(items) ==
    IF Len(items) = 0 THEN <<>>
    ELSE IF ParseMatchRaises(Head(items))
         THEN ParseMatches(Tail(items))
         ELSE <<ParseMatch(Head(items), FALSE)>> \o ParseMatches(Tail(items))

\* get_last_matches(count) on the answer's 'results'.
GetLastMatches(results, count, today) == ParseEvents(Prefix(results, count), today)

\* get_next_matches(count) on the answer's 'events'.
GetNextMatches(events, count, today) == ParseEvents(Prefix(events, count), today)

\* get_team_matches on the answer's 'matches'.
GetTeamMatches(items) == ParseMatches(items)

\* get_matches_by_date on the answer's 'matches'.
GetMatchesByDate(items) == ParseMatches(items)

\* Longest answer of a provider.
MaxBatch == 2

\* The count argument: one that cuts the answer short and the daily
\* update's 10.
Counts == {1, 10}

\* The days around the run's date.
StatusDays ==
    {<<2023, 12, 31>>, <<2024, 3, 9>>, <<2024, 3, 10>>, <<2024, 3, 11>>,
     <<2025, 1, 1>>}

BaseEvent ==
    CHOOSE e \in RawEvents :
        /\ e.idEvent = "e1" /\ e.dateEvent = MatchDay
        /\ e.intHomeScore = <<"2">> /\ e.intAwayScore = <<"1">>
        /\ e.strLeague = "Championship"

\* Raw scores and dates _determine_status may meet: null, '', a value.
StatusEvents ==
    {[BaseEvent EXCEPT !.intHomeScore = h, !.intAwayScore = a, !.dateEvent = d] :
        h \in {NoneT, <<>>, <<"2">>},
        a \in {NoneT, <<>>, <<"1">>},
        d \in {IsoDate(x[1], x[2], x[3]) : x \in StatusDays}
                  \cup {NoneT, <<>>, <<"s", "o", "o", "n">>}}

\* The items of a TheSportsDB answer: events with or without identifier and
\* date, played or not, and a null.
EventItems ==
    {e \in RawEvents :
        /\ e.strLeague = "Championship"
        /\ (e.intHomeScore = NoneT) <=> (e.intAwayScore = NoneT)
        /\ (e.idEvent = NoneS) <=> (e.dateEvent = NoneT)}
    \cup {JsonNull}

BaseMatch ==
    CHOOSE m \in RawMatches :
        m.status = "FINISHED" /\ m.fullTimeHome = 2 /\ m.fullTimeAway = 1

\* The items of a Football-Data answer: matches, a match without its
\* homeTeam, one whose utcDate has no time part, one without id, and a null.
MatchItems ==
    {m \in RawMatches : m.status = "FINISHED"}
    \cup {Without(BaseMatch, "homeTeam"),
          [BaseMatch EXCEPT !.utcDate = MatchDay],
          [BaseMatch EXCEPT !.id = NoneI],
          JsonNull}

\* Answers of up to MaxBatch items.
Batches(items) == UNION {[1..n -> items] : n \in 0..MaxBatch}

EventBatches == Batches(EventItems)

MatchBatches == Batches(MatchItems)

AdapterInit ==
    /\ ppc = "in"
    /\ pout = "pending"
    /\ \/ /\ pfun = "determine_status"
          /\ pin \in [event : StatusEvents, today : StatusDays]
       \/ /\ pfun \in {"get_last_matches", "get_next_matches"}
          /\ pin \in [items : EventBatches, count : Counts, today : {Today}]
       \/ /\ pfun \in {"get_team_matches", "get_matches_by_date"}
          /\ pin \in [items : MatchBatches]
    /\ FetchIdle
    /\ StoreIdle
    /\ ManagerIdle
    /\ RunIdle

ApplyDetermineStatus ==
    /\ ppc = "in" /\ pfun = "determine_status"
    /\ pout' = DetermineStatus(pin.event, pin.today)
    /\ ppc' = "out"
    /\ UNCHANGED <<pfun, pin, fvars, svars, mvars, rvars>>

ApplyGetLastMatches ==
    /\ ppc = "in" /\ pfun = "get_last_matches"
    /\ pout' = GetLastMatches(pin.items, pin.count, pin.today)
    /\ ppc' = "out"
    /\ UNCHANGED <<pfun, pin, fvars, svars, mvars, rvars>>

ApplyGetNextMatches ==
    /\ ppc = "in" /\ pfun = "get_next_matches"
    /\ pout' = GetNextMatches(pin.items, pin.count, pin.today)
    /\ ppc' = "out"
    /\ UNCHANGED <<pfun, pin, fvars, svars, mvars, rvars>>

ApplyGetTeamMatches ==
    /\ ppc = "in" /\ pfun = "get_team_matches"
    /\ pout' = GetTeamMatches(pin.items)
    /\ ppc' = "out"
    /\ UNCHANGED <<pfun, pin, fvars, svars, mvars, rvars>>

ApplyGetMatchesByDate ==
    /\ ppc = "in" /\ pfun = "get_matches_by_date"
    /\ pout' = GetMatchesByDate(pin.items)
    /\ ppc' = "out"
    /\ UNCHANGED <<pfun, pin, fvars, svars, mvars, rvars>>

AdapterNext ==
    \/ ApplyDetermineStatus
    \/ ApplyGetLastMatches
    \/ ApplyGetNextMatches
    \/ ApplyGetTeamMatches
    \/ ApplyGetMatchesByDate

SpecAdapters == AdapterInit /\ [][AdapterNext]_vars

(***************************************************************************)
(* DatabaseManager called directly: each write is one statement run by     *)
(* execute_query inside get_connection (connect, execute, commit or        *)
(* rollback and re-raise, close).                                          *)
(***************************************************************************)
TeamOptionalFields ==
    {"short_name", "stadium", "city", "country", "founded_year",
     "api_id_thesportsdb", "api_id_football_data"}

\* None, in the kind of the column's values.
NoneOf(field) == IF field = "founded_year" THEN NoneI ELSE NoneS

\* optional_fields of add_team: kwargs.get(field), 'England' for a missing
\* country.
TeamOptional(kwargs) ==
    [f \in TeamOptionalFields |->
        IF f = "country" THEN KwGet(kwargs, f, "England")
        ELSE KwGet(kwargs, f, NoneOf(f))]

\* add_team(team_name, **kwargs): INSERT the fields that are not None ...
\* ON CONFLICT (team_name) DO UPDATE SET each of them (DO NOTHING when there
\* is none).
AddTeamWith(teams_, team_name, kwargs) ==
    LET optional == TeamOptional(kwargs)
        fields == {f \in TeamOptionalFields : optional[f] # NoneOf(f)}
    IN  IF \E r \in teams_ : r.team_name = team_name
        THEN {IF r.team_name = team_name
              THEN [c \in DOMAIN r |-> IF c \in fields THEN optional[c] ELSE r[c]]
              ELSE r : r \in teams_}
        ELSE teams_ \cup
             {[c \in TeamOptionalFields \cup {"id", "team_name"} |->
                  IF c = "id" THEN NextId(teams_)
                  ELSE IF c = "team_name" THEN team_name
                  ELSE optional[c]]}

\* The natural key of players is the name: a second row of the same name is
\* rejected; rows without a name never collide.
PlayerUniqueViolation(players_, player_data) ==
    /\ player_data.player_name # NoneS
    /\ \E r \in players_ : r.player_name = player_data.player_name

\* _store_player: the record with the provider's identifier under the
\* provider's key.
StorePlayerData(player_data, source) ==
    [player_name |-> player_data.player_name,
     position |-> player_data.position,
     squad_number |-> player_data.squad_number,
     api_id_thesportsdb |->
         IF source = "thesportsdb" THEN player_data.api_id ELSE NoneS,
     api_id_football_data |->
         IF source = "football_data" THEN player_data.api_id ELSE NoneS]

\* add_player: INSERT INTO players (...) ON CONFLICT (id) DO UPDATE ...; the
\* id is never given, so the row is new.  Date of birth, nationality and
\* the joining and leaving dates are written as position is.
AddPlayer(players_, player_data) ==
    players_ \cup
    {[id |-> NextId(players_),
      player_name |-> player_data.player_name,
      position |-> player_data.position,
      squad_number |-> player_data.squad_number,
      api_id_thesportsdb |-> player_data.api_id_thesportsdb,
      api_id_football_data |-> player_data.api_id_football_data]}

\* Rows of players the model lets the table grow to.
MaxPlayers == 2

TeamNames == {"Celtic"}

TeamValues == [short_name |-> "CEL", country |-> "Scotland", founded_year |-> 1888]

\* Keyword arguments of add_team: any of three fields, or none.
TeamKwargs == {[f \in D |-> TeamValues[f]] : D \in SUBSET DOMAIN TeamValues}

\* Squad members as _parse_player gives them, one of them without name.
ParsedPlayers ==
    [player_name : {NoneS, "Conor Chaplin"}, position : {"Forward"},
     squad_number : {10}, api_id : {"p1"}]

\* The stats argument: the pipeline's four statistics, a fuller and a
\* sparser dictionary.
StatsInputs ==
    {[ipswich_possession |-> 55, opposition_possession |-> 45,
      ipswich_shots |-> 9, opposition_shots |-> 4],
     [ipswich_possession |-> 60, ipswich_corners |-> 5],
     [ipswich_possession |-> 50]}

\* Arguments of add_season: one label, with two pairs of dates.
SeasonCalls ==
    [op : {"add_season"}, season_name : {Season2324},
     start_date : {IsoDate(2023, 8, 1), IsoDate(2023, 7, 1)},
     end_date : {IsoDate(2024, 5, 31)}]

ManagerCalls ==
    [op : {"add_team"}, team_name : TeamNames, kwargs : TeamKwargs]
    \cup SeasonCalls
    \cup [op : {"add_player"},
          player_data : {StorePlayerData(d, "thesportsdb") : d \in ParsedPlayers}]
    \cup [op : {"add_match_statistics"}, match_id : {1}, stats : StatsInputs]

\* The tables these calls write.
Committed ==
    [seasons |-> seasons, teams |-> teams, players |-> players,
     match_statistics |-> match_statistics]

\* The statement of the call violates a constraint.
ManagerViolates(call, t) ==
    call.op = "add_player" /\ PlayerUniqueViolation(t.players, call.player_data)

\* The tables after the statement of the call.
ManagerApply(call, t) ==
    IF call.op = "add_team"
    THEN [t EXCEPT !.teams = AddTeamWith(t.teams, call.team_name, call.kwargs)]
    ELSE IF call.op = "add_season"
    THEN [t EXCEPT !.seasons = AddSeason(t.seasons, call.season_name,
                                         call.start_date, call.end_date)]
    ELSE IF call.op = "add_player"
    THEN [t EXCEPT !.players = AddPlayer(t.players, call.player_data)]
    ELSE [t EXCEPT !.match_statistics =
                       AddMatchStatistics(t.match_statistics, call.match_id,
                                          call.stats)]

\* RETURNING id
ManagerReturns(call, t) ==
    IF call.op = "add_team"
    THEN GetTeamId(ManagerApply(call, t).teams, call.team_name)
    ELSE IF call.op = "add_season"
    THEN GetSeasonId(ManagerApply(call, t).seasons, call.season_name)
    ELSE IF call.op = "add_player" THEN NextId(t.players)
    ELSE NoneI

ManagerInit ==
    /\ seasons = {} /\ teams = {} /\ competitions = {} /\ matches = {}
    /\ match_statistics = {} /\ match_id_seq = 0 /\ log = "off"
    /\ players = {}
    /\ conn = "none"
    /\ txn = [seasons |-> {}, teams |-> {}, players |-> {},
              match_statistics |-> {}]
    /\ mpc = "idle"
    /\ raised = FALSE
    /\ pfun = "none" /\ pin = "none" /\ pout = NoneI /\ ppc = "none"
    /\ FetchIdle
    /\ RunIdle

ManagerFrame ==
    UNCHANGED <<fvars, rvars, competitions, matches, match_id_seq, log>>

TablesUnchanged == UNCHANGED <<seasons, teams, players, match_statistics>>

\* A write method is called and psycopg2.connect gives a connection.
MCall ==
    /\ mpc = "idle"
    /\ \E call \in ManagerCalls :
          /\ call.op = "add_player" => Cardinality(players) < MaxPlayers
          /\ pfun' = call.op
          /\ pin' = call
    /\ conn' = "open"
    /\ txn' = Committed
    /\ mpc' = "connected"
    /\ raised' = FALSE
    /\ pout' = NoneI
    /\ ppc' = "pending"
    /\ TablesUnchanged
    /\ ManagerFrame

\* psycopg2.connect raises: there is no connection, and the call raises.
MConnectFails ==
    /\ mpc = "idle"
    /\ \E call \in ManagerCalls :
          /\ pfun' = call.op
          /\ pin' = call
    /\ conn' = "none"
    /\ raised' = TRUE
    /\ pout' = NoneI
    /\ ppc' = "connect_failed"
    /\ UNCHANGED <<txn, mpc>>
    /\ TablesUnchanged
    /\ ManagerFrame

\* cur.execute and fetchall succeed.
MExecute ==
    /\ mpc = "connected"
    /\ ~ManagerViolates(pin, txn)
    /\ txn' = ManagerApply(pin, txn)
    /\ pout' = ManagerReturns(pin, txn)
    /\ mpc' = "executed"
    /\ ppc' = "statement_ok"
    /\ UNCHANGED <<pfun, pin, conn, raised>>
    /\ TablesUnchanged
    /\ ManagerFrame

\* cur.execute raises: a constraint is violated, or the connection is lost.
MExecuteFails ==
    /\ mpc = "connected"
    /\ mpc' = "failed"
    /\ ppc' = "statement_failed"
    /\ UNCHANGED <<pfun, pin, pout, conn, txn, raised>>
    /\ TablesUnchanged
    /\ ManagerFrame

\* conn.commit()
MCommit ==
    /\ mpc = "executed"
    /\ seasons' = txn.seasons
    /\ teams' = txn.teams
    /\ players' = txn.players
    /\ match_statistics' = txn.match_statistics
    /\ mpc' = "closing"
    /\ UNCHANGED <<pfun, pin, pout, ppc, conn, txn, raised>>
    /\ ManagerFrame

\* conn.commit() raises because the connection is lost: the server has
\* committed or it has not.
MCommitFails ==
    /\ mpc = "executed"
    /\ \/ TablesUnchanged
       \/ /\ seasons' = txn.seasons
          /\ teams' = txn.teams
          /\ players' = txn.players
          /\ match_statistics' = txn.match_statistics
    /\ mpc' = "failed"
    /\ ppc' = "commit_failed"
    /\ UNCHANGED <<pfun, pin, pout, conn, txn, raised>>
    /\ ManagerFrame

\* The except branch, were it to log without raising again.
MRollbackSwallows ==
    /\ mpc = "failed"
    /\ txn' = Committed
    /\ mpc' = "closing"
    /\ UNCHANGED <<pfun, pin, pout, ppc, conn, raised>>
    /\ TablesUnchanged
    /\ ManagerFrame

\* except Exception: conn.rollback(); log; raise
MRollback ==
    /\ mpc = "failed"
    /\ txn' = Committed
    /\ raised' = TRUE
    /\ mpc' = "closing"
    /\ UNCHANGED <<pfun, pin, pout, ppc, conn>>
    /\ TablesUnchanged
    /\ ManagerFrame

\* finally: conn.close(); the call returns or the exception leaves it.
MClose ==
    /\ mpc = "closing"
    /\ conn' = "closed"
    /\ mpc' = "idle"
    /\ UNCHANGED <<pfun, pin, pout, ppc, txn, raised>>
    /\ TablesUnchanged
    /\ ManagerFrame

ManagerNext ==
    \/ MCall
    \/ MConnectFails
    \/ MExecute
    \/ MExecuteFails
    \/ MCommit
    \/ MCommitFails
    \/ MRollback
    \/ MClose

SpecManager == ManagerInit /\ [][ManagerNext]_vars

(***************************************************************************)
(* DailyUpdater.run_daily_update: the recent results of both providers,    *)
(* the upcoming fixtures, the check of status changes.                     *)
(***************************************************************************)
PhaseOrder == <<"Idle", "FetchingRecent", "FetchingUpcoming", "Done">>

\* The try blocks of _update_recent_matches and _update_upcoming_matches, in
\* the order run_daily_update reaches them.
Blocks ==
    <<[phase |-> "FetchingRecent", provider |-> "thesportsdb"],
      [phase |-> "FetchingRecent", provider |-> "football_data"],
      [phase |-> "FetchingUpcoming", provider |-> "thesportsdb"]>>

\* Longest list a fetch of the run returns.
MaxFetched == 2

\* The stored fixture the run's records are about.
DailyMatch ==
    [RestoredMatch EXCEPT !.home_score = NoneI, !.away_score = NoneI,
                          !.match_status = "scheduled",
                          !.api_id_football_data = "1"]

\* A fixture to come that has no row yet, as TheSportsDB reports it.
UnseenFixture ==
    ParseEvent([idEvent |-> "e2", dateEvent |-> IsoDate(2024, 3, 16),
                strHomeTeam |-> "Norwich City", strAwayTeam |-> "Ipswich Town",
                intHomeScore |-> NoneT, intAwayScore |-> NoneT,
                strLeague |-> "Championship", strSeason |-> Season2324,
                strVenue |-> "Carrow Road"], FALSE, Today)

\* The played fixture reported in detail with shots and without possession.
ShotsOnlyRecords ==
    {ParseEvent([e EXCEPT !.intHomePossession = NoneT, !.intAwayPossession = NoneT],
                TRUE, Today) : e \in {x \in RawEvents : FullEvent(x)}}

\* Records of that fixture as either provider reports it.
DailyRecords(source) ==
    IF source = "thesportsdb"
    THEN {r \in EventRecords : /\ r.competition = "Championship"
                               /\ r.api_id # NoneS /\ r.match_date # NoneT}
         \cup {UnseenFixture} \cup ShotsOnlyRecords
    ELSE {ParseMatch(m, FALSE) : m \in {x \in RawMatches : x.status = "FINISHED"}}
         \cup {ParseMatch([m EXCEPT !.status = "POSTPONED"], FALSE) :
                  m \in {x \in RawMatches : /\ x.fullTimeHome = NoneI
                                             /\ x.fullTimeAway = NoneI}}

DailyBatches(source) ==
    UNION {[1..n -> DailyRecords(source)] : n \in 0..MaxFetched}

DailyInit ==
    /\ seasons = {[id |-> 1, season_name |-> Season2324,
                   start_date |-> IsoDate(2023, 8, 1),
                   end_date |-> IsoDate(2024, 5, 31)]}
    /\ teams = {[id |-> 1, team_name |-> "Ipswich Town", country |-> "England"],
                [id |-> 2, team_name |-> "Norwich City", country |-> "England"]}
    /\ competitions = {[id |-> 1, name |-> "Championship"]}
    /\ matches = {DailyMatch}
    /\ match_statistics = {}
    /\ match_id_seq = 1
    /\ log = "none"
    /\ rpc = <<0, "idle">>
    /\ phase = "Idle"
    /\ entered = <<"Idle">>
    /\ queried = {}
    /\ failed = {}
    /\ fetched = <<>>
    /\ ret = "none"
    /\ HistoryIdle
    /\ PureIdle
    /\ FetchIdle
    /\ ManagerIdle

DailyFrame == UNCHANGED <<pvars, fvars, mvars>>

StoreUnchanged ==
    UNCHANGED <<seasons, teams, competitions, matches, match_statistics,
                match_id_seq, log>>

\* run_daily_update calls _update_recent_matches.
RunStart ==
    /\ rpc = <<0, "idle">>
    /\ rpc' = <<1, "fetch">>
    /\ phase' = Blocks[1].phase
    /\ entered' = Append(entered, Blocks[1].phase)
    /\ UNCHANGED <<queried, failed, fetched, ret>>
    /\ StoreUnchanged
    /\ UNCHANGED hvars
    /\ DailyFrame

\* Control leaves try block i: the next block, in the same method or in the
\* next one, and after the last the check of status changes.
EndBlock(i) ==
    IF i < Len(Blocks)
    THEN /\ rpc' = <<i + 1, "fetch">>
         /\ phase' = Blocks[i + 1].phase
         /\ entered' = IF Blocks[i + 1].phase = phase THEN entered
                       ELSE Append(entered, Blocks[i + 1].phase)
    ELSE /\ rpc' = <<Len(Blocks) + 1, "check">>
         /\ UNCHANGED <<phase, entered>>

\* The block's list method returns the provider's records.
DailyFetch ==
    /\ rpc[2] = "fetch"
    /\ queried' = queried \cup {<<phase, Blocks[rpc[1]].provider>>}
    /\ \E list \in DailyBatches(Blocks[rpc[1]].provider) : fetched' = list
    /\ rpc' = <<rpc[1], "process">>
    /\ UNCHANGED <<phase, entered, failed, ret>>
    /\ StoreUnchanged
    /\ UNCHANGED hvars
    /\ DailyFrame

\* The block's fetch, were its exception to reach run_daily_update.
DailyFetchFailsAborts ==
    /\ rpc[2] = "fetch"
    /\ queried' = queried \cup {<<phase, Blocks[rpc[1]].provider>>}
    /\ failed' = failed \cup {<<phase, Blocks[rpc[1]].provider>>}
    /\ rpc' = <<Len(Blocks) + 2, "done">>
    /\ phase' = "Done"
    /\ entered' = Append(entered, "Done")
    /\ ret' = "False"
    /\ UNCHANGED fetched
    /\ StoreUnchanged
    /\ UNCHANGED hvars
    /\ DailyFrame

\* The block's list method raises, or the provider gave nothing: the
\* block's except logs it and the block is over.
DailyFetchFails ==
    /\ rpc[2] = "fetch"
    /\ queried' = queried \cup {<<phase, Blocks[rpc[1]].provider>>}
    /\ failed' = failed \cup {<<phase, Blocks[rpc[1]].provider>>}
    /\ EndBlock(rpc[1])
    /\ UNCHANGED <<fetched, ret>>
    /\ StoreUnchanged
    /\ UNCHANGED hvars
    /\ DailyFrame

\* _update_match_from_api on the next record of the list.
DailyProcess ==
    /\ rpc[2] = "process" /\ Len(fetched) > 0
    /\ LET source == Blocks[rpc[1]].provider
           match_data == Head(fetched)
           rows == RowsByApiId(matches, source, match_data.api_id)
       IN  \E found \in {m.id : m \in rows} \cup
                        (IF rows = {} THEN {NoneI} ELSE {}) :
              Leaves(UpdateMatchFromApiOn(Database, match_data, source, found))
    /\ fetched' = Tail(fetched)
    /\ UNCHANGED <<rpc, phase, entered, queried, failed, ret>>
    /\ UNCHANGED hvars
    /\ DailyFrame

\* _update_match_from_api meets a database error at its first statement:
\* its except logs it and the loop goes on.
DailyProcessFails ==
    /\ rpc[2] = "process" /\ Len(fetched) > 0
    /\ failed' = failed \cup {<<phase, Blocks[rpc[1]].provider>>}
    /\ fetched' = Tail(fetched)
    /\ log' = "Error updating match"
    /\ UNCHANGED <<seasons, teams, competitions, matches, match_statistics,
                   match_id_seq>>
    /\ UNCHANGED <<rpc, phase, entered, queried, ret>>
    /\ UNCHANGED hvars
    /\ DailyFrame

\* The loop over the list is over.
DailyBlockDone ==
    /\ rpc[2] = "process" /\ Len(fetched) = 0
    /\ EndBlock(rpc[1])
    /\ UNCHANGED <<queried, failed, fetched, ret>>
    /\ StoreUnchanged
    /\ UNCHANGED hvars
    /\ DailyFrame

\* _check_match_status_changes reads the upcoming matches and changes
\* nothing; run_daily_update returns True, or False when the read raised.
DailyCheck ==
    /\ rpc[2] = "check"
    /\ ret' \in {"True", "False"}
    /\ rpc' = <<Len(Blocks) + 2, "done">>
    /\ phase' = "Done"
    /\ entered' = Append(entered, "Done")
    /\ UNCHANGED <<queried, failed, fetched>>
    /\ StoreUnchanged
    /\ UNCHANGED hvars
    /\ DailyFrame

DailyNext ==
    \/ RunStart
    \/ DailyFetch
    \/ DailyFetchFails
    \/ DailyProcess
    \/ DailyProcessFails
    \/ DailyBlockDone
    \/ DailyCheck

SpecDaily == DailyInit /\ [][DailyNext]_vars

(***************************************************************************)
(* CurrentSeasonFetcher.fetch_all: the current season is ensured, then     *)
(* every fetched record goes to _store_match; some records carry no season *)
(* label.                                                                  *)
(***************************************************************************)
\* _get_current_season: the season runs from August.
GetCurrentSeason(today) ==
    IF today[2] >= 8
    THEN DecimalText(today[1]) \o <<"/">> \o Suffix(DecimalText(today[1] + 1), 2)
    ELSE DecimalText(today[1] - 1) \o <<"/">> \o Suffix(DecimalText(today[1]), 2)

\* self.current_season
CurrentSeason == GetCurrentSeason(Today)

\* Records of a match of a known competition for which the provider gave
\* no season: strSeason null or '', no season dates.
SeasonlessRecords(source) ==
    IF source = "thesportsdb"
    THEN {ParseEvent([e EXCEPT !.strSeason = s], FALSE, Today) :
             e \in {x \in RawEvents : /\ x.idEvent # NoneS
                                      /\ x.dateEvent # NoneT
                                      /\ x.strLeague = "Championship"},
             s \in {NoneT, <<>>}}
    ELSE {ParseMatch([m EXCEPT !.seasonStart = <<>>, !.seasonEnd = <<>>], FALSE) :
             m \in RawMatches}

\* _ensure_season_exists
EnsureSeasonExists ==
    /\ log # "off"
    /\ seasons' = IF GetSeasonId(seasons, CurrentSeason) = NoneI
                  THEN AddSeason(seasons, CurrentSeason,
                           DecimalText(IntOf(Before(CurrentSeason, "/")))
                               \o <<"-", "0", "8", "-", "0", "1">>,
                           DecimalText(IntOf(Before(CurrentSeason, "/")) + 1)
                               \o <<"-", "0", "5", "-", "3", "1">>)
                  ELSE seasons
    /\ log' = "Fetching"
    /\ UNCHANGED <<teams, competitions, matches, match_statistics, match_id_seq>>
    /\ UNCHANGED <<pvars, fvars, mvars, rvars>>

\* _store_match on a record of the fetch that has a season label.
FetchedStoreMatch ==
    /\ GetSeasonId(seasons, CurrentSeason) # NoneI
    /\ StoreMatch

\* _store_match on a record of the fetch that has none.
StoreSeasonlessMatch ==
    /\ GetSeasonId(seasons, CurrentSeason) # NoneI
    /\ \E source \in Clients : \E match_data \in SeasonlessRecords(source) :
          Leaves(StoreMatchOn(Database, match_data, source))
    /\ UNCHANGED <<pvars, fvars, mvars, rvars>>

FetchAllNext == EnsureSeasonExists \/ FetchedStoreMatch \/ StoreSeasonlessMatch

SpecFetchAll == StoreInit /\ [][FetchAllNext]_vars

(***************************************************************************)
(* run_daily_update made again: after it returned, or after the process    *)
(* was stopped somewhere in it.  The providers answer the second run as    *)
(* they answered the first; the second run meets no database error.        *)
(***************************************************************************)
\* Longest list a provider answers in these runs.
MaxReplayed == 1

\* The stored fixture as the providers may report it: without scores, with
\* both, in detail, postponed.
RerunRecords(source) ==
    IF source = "thesportsdb"
    THEN {r \in EventRecords : /\ r.competition = "Championship"
                               /\ r.api_id # NoneS /\ r.match_date # NoneT
                               /\ (r.home_score = NoneI) = (r.away_score = NoneI)}
    ELSE {r \in DailyRecords(source) : r.status = "postponed" \/ r.home_score # NoneI}

\* A fetch raised (ok is FALSE) or returned a list.
RerunResponses(source) ==
    {[ok |-> FALSE, list |-> <<>>]}
    \cup {[ok |-> TRUE, list |-> l] :
             l \in UNION {[1..n -> RerunRecords(source)] : n \in 0..MaxReplayed}}

\* A row of statistics entered with more than the pipeline's four columns.
StoredStatistics ==
    [c \in StatColumns \cup {"match_id"} |->
        IF c = "match_id" THEN 1
        ELSE IF c \in UpdatedStatColumns THEN 50
        ELSE IF c = "ipswich_corners" THEN 5
        ELSE NoneI]

RerunInit ==
    /\ seasons = {[id |-> 1, season_name |-> Season2324,
                   start_date |-> IsoDate(2023, 8, 1),
                   end_date |-> IsoDate(2024, 5, 31)]}
    /\ teams = {[id |-> 1, team_name |-> "Ipswich Town", country |-> "England"],
                [id |-> 2, team_name |-> "Norwich City", country |-> "England"]}
    /\ competitions = {[id |-> 1, name |-> "Championship"]}
    /\ \/ matches = {DailyMatch} /\ match_statistics = {}
       \/ /\ matches = {[DailyMatch EXCEPT !.home_score = 0, !.away_score = 0,
                                           !.match_status = "live"]}
          /\ match_statistics = {StoredStatistics}
    /\ match_id_seq = 1
    /\ log = "none"
    /\ rpc = <<0, "idle">>
    /\ phase = "Idle"
    /\ entered = <<"Idle">>
    /\ queried = {}
    /\ failed = {}
    /\ fetched = <<>>
    /\ ret = "none"
    /\ responses = <<>>
    /\ run = 1
    /\ start = Database
    /\ PureIdle
    /\ FetchIdle
    /\ ManagerIdle

\* What the provider answers to the fetch of block i: what it answered in
\* the first run, if the first run came to ask.
ResponsesAt(i) ==
    IF i <= Len(responses) THEN {responses[i]}
    ELSE RerunResponses(Blocks[i].provider)

Answered(i, resp) ==
    responses' = IF i <= Len(responses) THEN responses ELSE Append(responses, resp)

\* The block's list method returns the provider's records.
RerunFetch ==
    /\ rpc[2] = "fetch"
    /\ \E resp \in ResponsesAt(rpc[1]) :
          /\ resp.ok
          /\ Answered(rpc[1], resp)
          /\ fetched' = resp.list
    /\ queried' = queried \cup {<<phase, Blocks[rpc[1]].provider>>}
    /\ rpc' = <<rpc[1], "process">>
    /\ UNCHANGED <<phase, entered, failed, ret, run, start>>
    /\ StoreUnchanged
    /\ DailyFrame

\* The block's list method raises.
RerunFetchFails ==
    /\ rpc[2] = "fetch"
    /\ \E resp \in ResponsesAt(rpc[1]) :
          /\ ~resp.ok
          /\ Answered(rpc[1], resp)
    /\ queried' = queried \cup {<<phase, Blocks[rpc[1]].provider>>}
    /\ failed' = failed \cup {<<phase, Blocks[rpc[1]].provider>>}
    /\ EndBlock(rpc[1])
    /\ UNCHANGED <<fetched, ret, run, start>>
    /\ StoreUnchanged
    /\ DailyFrame

\* A database error in _update_match_from_api, in the first run.
FirstRunProcessFails == run = 1 /\ DailyProcessFails

\* run_daily_update is called again.
StartAgain ==
    /\ run = 1
    /\ run' = 2
    /\ rpc' = <<0, "idle">>
    /\ phase' = "Idle"
    /\ entered' = <<"Idle">>
    /\ queried' = {}
    /\ failed' = {}
    /\ fetched' = <<>>
    /\ ret' = "none"
    /\ UNCHANGED <<responses, start>>
    /\ DailyFrame

\* The first run has returned; the scheduler starts the next.
Rerun ==
    /\ rpc[2] = "done"
    /\ StartAgain
    /\ StoreUnchanged

\* The process of the first run is stopped between two statements of the
\* run; the scheduler starts the next.
Interrupt ==
    /\ rpc[1] \in 1..(Len(Blocks) + 1)
    /\ StartAgain
    /\ StoreUnchanged

\* The process is stopped inside _update_match_from_api, after
\* update_match_score has committed and before add_match_statistics.
InterruptInsideUpdate ==
    /\ rpc[2] = "process" /\ Len(fetched) > 0
    /\ TruthyI(Head(fetched).home_possession)
    /\ LET source == Blocks[rpc[1]].provider
           match_data == [Head(fetched) EXCEPT !.home_possession = NoneI]
           rows == RowsByApiId(matches, source, match_data.api_id)
       IN  \E found \in {m.id : m \in rows} :
              Leaves(UpdateMatchFromApiOn(Database, match_data, source, found))
    /\ StartAgain

RerunNext ==
    \/ RunStart
    \/ RerunFetch
    \/ RerunFetchFails
    \/ DailyProcess
    \/ FirstRunProcessFails
    \/ DailyBlockDone
    \/ DailyCheck
    \/ Rerun
    \/ Interrupt
    \/ InterruptInsideUpdate

SpecRerun == RerunInit /\ [][RerunNext]_vars

(***************************************************************************)
(* Properties.                                                             *)
(***************************************************************************)

\* The (season, competition, date, home, away) key of a match row.
MatchKey(m) ==
    <<m.season_id, m.competition_id, m.match_date, m.home_team_id, m.away_team_id>>

Tables == <<seasons, teams, competitions, matches, match_statistics>>

\* Some record of the provider, its competition known, whose _store_match
\* leads from the current database to the next one.
StoredBy(source, match_data) ==
    /\ GetCompetitionId(competitions, match_data.competition) # NoneI
    /\ LET r == StoreMatchOn(Database, match_data, source)
       IN  /\ seasons' = r.db.seasons
           /\ teams' = r.db.teams
           /\ matches' = r.db.matches
           /\ match_statistics' = r.db.match_statistics
           /\ match_id_seq' = r.db.match_id_seq

\* C1: once a record has been stored, storing the same record again leaves
\* the matches table as it is: still one row for the match, with the same
\* field values.
MatchStorageIdempotent ==
    [][\A source \in Clients : \A match_data \in Records(source) :
          StoredBy(source, match_data) =>
              StoreMatchOn(Database', match_data, source).db.matches = matches']_vars

\* C2: a row stored from one provider and a row stored from the other never
\* stand side by side for the same (season, competition, date, home, away):
\* the two records have resolved to one row.
FallbackIdentityResolution ==
    \A m1, m2 \in matches :
        (/\ m1.api_id_thesportsdb # NoneS
         /\ m2.api_id_football_data # NoneS
         /\ MatchKey(m1) = MatchKey(m2)) => m1.id = m2.id

\* C3: every match row has both scores or neither.
ScoreAtomicity ==
    \A m \in matches : (m.home_score = NoneI) <=> (m.away_score = NoneI)

\* C4: a _store_match that ends with "Competition not found" has written
\* nothing: every table is as it was before the call.
SkipOnUnknownCompetition ==
    [][log' = "Competition not found" => UNCHANGED Tables]_vars

RateLimiterSpacing ==
    prevStart # NoneI => lastStart - prevStart >= RateLimitDelay(client)

\* A second call issued right after the first one had to sleep out the delay.
RateLimiterSpacingWitness ==
    /\ client = "football_data" /\ calls = 2
    /\ prevStart # NoneI
    /\ lastStart - prevStart = FdRateLimitDelay

\* C7: a fetch call makes at most two outbound requests; when the retried
\* request is answered 429 as well, the call ends and returns a failure.
ThrottlingRetryBoundedToOne ==
    /\ reqs <= 2
    /\ (client = "football_data" /\ reqs = 2 /\ outcome = "429")
           => (fpc = "idle" /\ result = "None")

\* C8: after a timeout, a connection error or an HTTP error other than 429
\* the call has returned None, and it sends nothing more.
TransportFailureNotRetried ==
    /\ [](outcome \in TransportFailures => (fpc \in {"idle", "ready"} /\ result = "None"))
    /\ [][(outcome \in TransportFailures /\ calls' = calls) => reqs' = reqs]_vars

TransportFailureNotRetriedWitness ==
    /\ client = "football_data" /\ outcome = "timeout"
    /\ reqs = 1 /\ result = "None"

\* C9: _map_status maps every input into the five canonical statuses, and
\* every input outside the provider's vocabulary (a missing status too) to
\* scheduled.
StatusMappingTotal ==
    (ppc = "out" /\ pfun = "map_status") =>
        /\ pout \in CanonicalStatuses
        /\ pin \notin FootballDataVocabulary => pout = "scheduled"

StatusMappingTotalWitness ==
    /\ ppc = "out" /\ pfun = "map_status"
    /\ pin = "SUSPENDED" /\ pout = "postponed"

\* C10: _extract_season gives '<startYear>/<last two digits of endYear>' for
\* dates in different years, the year for dates in the same year, and ''
\* when neither date is available.
SeasonLabelRule ==
    (ppc = "out" /\ pfun = "extract_season") =>
        /\ \A a, b \in SeasonDates :
              pin = <<IsoDate(a.y, a.m, a.d), IsoDate(b.y, b.m, b.d)>> =>
                  pout = IF a.y # b.y
                         THEN ZeroPad(a.y, 4) \o <<"/">> \o ZeroPad(b.y % 100, 2)
                         ELSE ZeroPad(a.y, 4)
        /\ (pin[1] \in {<<>>, NoneT} /\ pin[2] \in {<<>>, NoneT}) => pout = <<>>
        /\ pin = <<IsoDate(2023, 8, 1), IsoDate(2024, 5, 31)>> =>
              pout = <<"2", "0", "2", "3", "/", "2", "4">>
        /\ pin = <<IsoDate(2023, 1, 1), IsoDate(2023, 12, 31)>> =>
              pout = <<"2", "0", "2", "3">>

SeasonLabelRuleWitness ==
    /\ ppc = "out" /\ pfun = "extract_season"
    /\ pin = <<IsoDate(2023, 8, 1), IsoDate(2024, 5, 31)>>
    /\ pout = <<"2", "0", "2", "3", "/", "2", "4">>

\* A date as one number, for comparing days.
DayNumber(d) == d[1] * 10000 + d[2] * 100 + d[3]

\* C11: the inferred status is finished when both raw scores are present
\* (not null), otherwise finished when the event's date is a day strictly
\* before the current date, otherwise scheduled.
InferredStatus ==
    (ppc = "out" /\ pfun = "determine_status") =>
        LET e == pin.event
            past == \E d \in StatusDays :
                        /\ e.dateEvent = IsoDate(d[1], d[2], d[3])
                        /\ DayNumber(d) < DayNumber(pin.today)
        IN  pout = IF e.intHomeScore # NoneT /\ e.intAwayScore # NoneT
                   THEN "finished"
                   ELSE IF past THEN "finished" ELSE "scheduled"

\* An event dated today, without scores, is scheduled.
InferredStatusWitness ==
    /\ ppc = "out" /\ pfun = "determine_status"
    /\ pin.event.intHomeScore = NoneT
    /\ pin.event.dateEvent = IsoDate(2024, 3, 10)
    /\ pin.today = <<2024, 3, 10>>
    /\ pout = "scheduled"

ListMethods ==
    {"get_last_matches", "get_next_matches", "get_team_matches",
     "get_matches_by_date"}

\* The records of the items whose normalisation succeeds, in the order of
\* the items.
NormalisedOf(method, items) ==
    IF method \in {"get_last_matches", "get_next_matches"}
    THEN LET ok == SelectSeq(items, IsObject)
         IN  [i \in 1..Len(ok) |-> ParseEvent(ok[i], FALSE, Today)]
    ELSE LET ok == SelectSeq(items, LAMBDA x : ~ParseMatchRaises(x))
         IN  [i \in 1..Len(ok) |-> ParseMatch(ok[i], FALSE)]

\* The items a list method reads: the first count items for TheSportsDB's
\* methods, all of them for Football-Data's.
ItemsRead(method, input) ==
    IF method \in {"get_last_matches", "get_next_matches"}
    THEN SubSeq(input.items, 1,
                IF input.count < Len(input.items) THEN input.count
                ELSE Len(input.items))
    ELSE input.items

\* C12, as stated: a list method returns, in the provider's order, exactly
\* the normalised records of the items of the answer whose normalisation
\* succeeded.
MalformedItemNeverAbortsBatch ==
    (ppc = "out" /\ pfun \in ListMethods) =>
        pout = NormalisedOf(pfun, pin.items)

\* C12, amended: a list method returns, in the provider's order, exactly the
\* normalised records of the items it reads whose normalisation succeeded;
\* a failing item is dropped and the items after it are still returned.
MalformedItemDroppedFromItemsRead ==
    (ppc = "out" /\ pfun \in ListMethods) =>
        pout = NormalisedOf(pfun, ItemsRead(pfun, pin))

\* A null item followed by an event: the event's record is returned.
MalformedItemDroppedWitness ==
    /\ ppc = "out" /\ pfun = "get_last_matches"
    /\ pin.count = 10
    /\ Len(pin.items) = 2
    /\ ~IsObject(pin.items[1]) /\ IsObject(pin.items[2])
    /\ Len(pout) = 1

\* C13: every record a list method returns has a match date, both team
\* names, a canonical status and a real provider identifier.
MinimumPopulatedFields ==
    (ppc = "out" /\ pfun \in ListMethods) =>
        \A i \in 1..Len(pout) :
            /\ pout[i].match_date # NoneT
            /\ pout[i].home_team # NoneS
            /\ pout[i].away_team # NoneS
            /\ pout[i].status \in CanonicalStatuses
            /\ pout[i].api_id \notin {NoneS, "None"}

\* C14: add_team for a name that has a row leaves every field the call did
\* not supply as it was; a call with the name alone changes nothing.
TeamUpdateWritesOnlySupplied ==
    [][(pfun = "add_team" /\ teams' # teams) =>
          \A r \in teams :
              r.team_name = pin.team_name =>
                  \E n \in teams' :
                      /\ n.id = r.id
                      /\ \A f \in TeamOptionalFields :
                            f \notin DOMAIN pin.kwargs => n[f] = r[f]]_vars

\* C15: the players table never holds two rows of one and the same player
\* record: a record applied twice has one row.
PlayerUpsertIdempotent ==
    \A a, b \in players : Without(a, "id") = Without(b, "id") => a = b

\* C16: add_match_statistics for a match that has a statistics row leaves
\* one row for the match, every statistic of which is the value of the
\* latest call, null where the call gives none.
StatisticsFullyReplaced ==
    [][(/\ pfun = "add_match_statistics"
        /\ match_statistics' # match_statistics
        /\ \E r \in match_statistics : r.match_id = pin.match_id) =>
          /\ \A a, b \in match_statistics' : a.match_id = b.match_id => a = b
          /\ \A n \in match_statistics' :
                n.match_id = pin.match_id =>
                    \A c \in StatColumns : n[c] = KwGet(pin.stats, c, NoneI)]_vars

\* C19: the tables change only by the commit of a call whose statement
\* succeeded, and then to that call's result; a call whose statement failed
\* has committed nothing, raises and leaves its connection closed; a call
\* that returns has committed its change; the next call starts on a new
\* connection from the committed tables.
UnitOfWork ==
    /\ [][Committed' # Committed => (mpc = "executed" /\ Committed' = txn)]_vars
    /\ [][ppc' = "statement_failed" => Committed' = Committed]_vars
    /\ []((mpc = "idle" /\ ppc = "statement_failed") =>
              (raised /\ conn = "closed"))
    /\ []((mpc = "idle" /\ ppc = "statement_ok" /\ ~raised) =>
              (Committed = txn /\ conn = "closed"))
    /\ [][(mpc = "idle" /\ mpc' = "connected") =>
              (conn' = "open" /\ txn' = Committed /\ ~raised')]_vars

\* add_player for a name that has a row: the statement failed on the
\* constraint, the call raised, the connection is closed.
UnitOfWorkWitness ==
    /\ mpc = "idle" /\ ppc = "statement_failed" /\ pfun = "add_player"
    /\ raised /\ conn = "closed"
    /\ \E r \in players : r.player_name = pin.player_data.player_name

\* The place of a phase in the order of the run.
PhaseIndex(ph) == CHOOSE n \in 1..Len(PhaseOrder) : PhaseOrder[n] = ph

\* C17: the phases a run has entered are Idle, FetchingRecent,
\* FetchingUpcoming, Done in that order, each once; the phase only ever
\* moves to the next one; FetchingUpcoming is entered from FetchingRecent
\* with no recent record left to process.
LinearRun ==
    /\ [](/\ \E n \in 1..Len(PhaseOrder) : entered = SubSeq(PhaseOrder, 1, n)
          /\ phase = entered[Len(entered)])
    /\ [][phase' # phase => PhaseIndex(phase') = PhaseIndex(phase) + 1]_vars
    /\ [][(phase' = "FetchingUpcoming" /\ phase # "FetchingUpcoming") =>
              (/\ phase = "FetchingRecent"
               /\ Len(fetched) = 0
               /\ <<"FetchingRecent", "football_data">> \in queried')]_vars

\* A run in which a fetch failed has passed through all four phases.
LinearRunWitness ==
    /\ rpc[2] = "done"
    /\ entered = PhaseOrder
    /\ <<"FetchingRecent", "thesportsdb">> \in failed

OtherProvider(p) == IF p = "thesportsdb" THEN "football_data" ELSE "thesportsdb"

\* C18: when the run is over, every phase in which a provider's fetch or
\* processing failed has queried the other provider as well, and the run
\* has entered every phase.
PartialSourceFailureNotFatal ==
    rpc[2] = "done" =>
        /\ entered = PhaseOrder
        /\ \A f \in failed : <<f[1], OtherProvider(f[2])>> \in queried

UniqueBy(table, key) == \A a, b \in table : a[key] = b[key] => a = b

NaturalKeyCalls == {c \in ManagerCalls : c.op \in {"add_team", "add_season"}}

\* C21: the teams and the seasons, committed or written by the statement
\* in flight, hold one row for a name; and from the committed tables any
\* add_team or add_season call made twice leaves what it left when made
\* once.
NaturalKeyUniqueness ==
    /\ UniqueBy(teams, "team_name") /\ UniqueBy(seasons, "season_name")
    /\ UniqueBy(txn.teams, "team_name") /\ UniqueBy(txn.seasons, "season_name")
    /\ \A call \in NaturalKeyCalls :
          LET once == ManagerApply(call, Committed)
          IN  /\ ManagerApply(call, once) = once
              /\ UniqueBy(once.teams, "team_name")
              /\ UniqueBy(once.seasons, "season_name")

\* add_season has run for a label that has a committed row with other
\* dates, and add_team has been committed before.
NaturalKeyUniquenessWitness ==
    /\ mpc = "executed" /\ pfun = "add_season"
    /\ \E r \in seasons : r.season_name = pin.season_name
                          /\ r.start_date # pin.start_date
    /\ Cardinality(txn.seasons) = 1
    /\ teams # {}

\* C22: a run that is over has called the fetch of both providers in the
\* recent-results phase and in the upcoming-fixtures phase.
BothProvidersQueriedInBothPhases ==
    rpc[2] = "done" =>
        \A ph \in {"FetchingRecent", "FetchingUpcoming"} :
            \A p \in Clients : <<ph, p>> \in queried

\* The rows of the provider's identifier.
RowsOf(matches_, source, match_data) ==
    RowsByApiId(matches_, source, match_data.api_id)

\* C23: a _store_match of a record without season label, its competition
\* known, leaves a row of the match under the current season.
SeasonFallback ==
    [][\A source \in Clients : \A match_data \in SeasonlessRecords(source) :
          (/\ StoredBy(source, match_data)
           /\ log' = StoreMatchOn(Database, match_data, source).log) =>
              \E m \in RowsOf(matches', source, match_data) :
                  m.season_id = GetSeasonId(seasons', CurrentSeason)]_vars

\* C24: when _update_match_from_api has processed a record whose provider
\* identifier has a stored row of another status, the row has the record's
\* status, whether or not the record has scores.
StatusChangesApplied ==
    [][(/\ rpc[2] = "process" /\ Len(fetched) > 0
        /\ fetched' = Tail(fetched)
        /\ log' # "Error updating match") =>
           \A m \in RowsOf(matches, Blocks[rpc[1]].provider, Head(fetched)) :
               m.match_status # Head(fetched).status =>
                   \E n \in matches' : /\ n.id = m.id
                                       /\ n.match_status = Head(fetched).status]_vars

\* C25: when _update_match_from_api has processed a record that has a
\* provider identifier and a known competition and whose identifier has no
\* row, the matches table has a row of that identifier.
AbsenceDrivesCreation ==
    [][(/\ rpc[2] = "process" /\ Len(fetched) > 0
        /\ fetched' = Tail(fetched)
        /\ log' # "Error updating match"
        /\ Head(fetched).api_id \notin {NoneS, ""}
        /\ GetCompetitionId(competitions, Head(fetched).competition) # NoneI
        /\ RowsOf(matches, Blocks[rpc[1]].provider, Head(fetched)) = {}) =>
           RowsOf(matches', Blocks[rpc[1]].provider, Head(fetched)) # {}]_vars

StatisticFields == {"home_shots", "away_shots", "home_possession", "away_possession"}

HasStatistic(match_data) == \E f \in StatisticFields : match_data[f] # NoneI

FoundRow(db, match_data, source) ==
    LET rows == RowsByApiId(db.matches, source, match_data.api_id)
    IN  IF rows = {} THEN NoneI ELSE (CHOOSE m \in rows : TRUE).id

RECURSIVE ProcessRecords(_, _, _)
\* The database after _update_match_from_api on each record of the list.
ProcessRecords(db, list, source) ==
    IF Len(list) = 0 THEN db
    ELSE ProcessRecords(
             UpdateMatchFromApiOn(db, Head(list), source,
                                  FoundRow(db, Head(list), source)).db,
             Tail(list), source)

RECURSIVE CompleteRunFrom(_, _, _)
\* The database after the blocks i and later of one complete run.
CompleteRunFrom(db, answers, i) ==
    IF i > Len(answers) THEN db
    ELSE CompleteRunFrom(
             IF answers[i].ok
             THEN ProcessRecords(db, answers[i].list, Blocks[i].provider)
             ELSE db,
             answers, i + 1)

\* The blocks of the run whose fetch raised.
FetchFailures ==
    {<<Blocks[i].phase, Blocks[i].provider>> :
        i \in {j \in 1..Len(responses) : ~responses[j].ok}}

\* C27: a first run that met no database error leaves the database one
\* complete run leaves; the run made again, after the first returned or
\* was stopped anywhere, leaves that same database.
DailyUpdateRerunnable ==
    /\ (run = 1 /\ rpc[2] = "done" /\ failed = FetchFailures) =>
           Database = CompleteRunFrom(start, responses, 1)
    /\ (run = 2 /\ rpc[2] = "done") =>
           Database = CompleteRunFrom(start, responses, 1)

\* The run made again is over, and the scores and the statistics are not
\* the ones the runs started from.
DailyUpdateRerunnableWitness ==
    /\ run = 2 /\ rpc[2] = "done"
    /\ match_statistics # start.match_statistics
    /\ matches # start.matches

\* C28: every call of FootballDataClient._make_request that has begun
\* comes to its end having returned a response or None.
EveryFetchTerminates ==
    \A n \in 1..MaxCalls :
        (calls = n /\ fpc # "idle") ~>
            (calls = n /\ fpc = "idle" /\ result \in {"data", "None"})

Ids(table) == {r.id : r \in table}

\* C29: every match row refers to a season, a competition, a home team and
\* an away team that have a row, and has none of the four references null.
ReferentialIntegrity ==
    \A m \in matches :
        /\ m.season_id \in Ids(seasons)
        /\ m.competition_id \in Ids(competitions)
        /\ m.home_team_id \in Ids(teams)
        /\ m.away_team_id \in Ids(teams)
        /\ NoneI \notin {m.season_id, m.competition_id, m.home_team_id, m.away_team_id}

\* _store_match has written a row whose season and both teams it created.
ReferentialIntegrityWitness ==
    /\ log = "Added match"
    /\ \E m \in matches :
          /\ m.home_team_id # m.away_team_id
          /\ m.season_id \in Ids(seasons)
    /\ Cardinality(teams) = 2

\* C30: an event dated the current day or later whose inferred status is
\* finished has both normalised scores.
InferredStatusAgreesWithScores ==
    (/\ ppc = "out" /\ pfun = "determine_status"
     /\ \E d \in StatusDays : /\ pin.event.dateEvent = IsoDate(d[1], d[2], d[3])
                              /\ DayNumber(d) >= DayNumber(pin.today)) =>
        (pout = "finished" =>
            /\ ParseEvent(pin.event, FALSE, pin.today).home_score # NoneI
            /\ ParseEvent(pin.event, FALSE, pin.today).away_score # NoneI)

====
